---- MODULE Spec2Model ----
(***************************************************************************)
(* A model of the training loop of learn/src/main.rs: checkpoint discovery *)
(* and start-up, ingestion of the two target streams into the replay       *)
(* buffers, truncation, readiness, batch composition with reuse, the       *)
(* save cadence, and the external workers that append to the stream files. *)
(***************************************************************************)
EXTENDS Integers, Sequences, FiniteSets, TLC

(***************************************************************************)
(* Bounds of the model.                                                    *)
(***************************************************************************)
\* Most lines the workers append to the two stream files together.
MaxLines == 3
\* Most lines of one stream file that are not well-formed targets.
MaxBadLines == 1
\* The loop counter is followed up to this value.
MaxSteps == 7
\* Largest uses_available seed of the batch-composition specification.
MaxUses == 2
\* Largest buffer the batch-composition specification starts from.
MaxBuffered == 2
\* The last random game of pre_training takes the pool up to this many targets
\* beyond INITIAL_RANDOM_TARGETS.
MaxOvershoot == 1
\* Largest model_steps tag of a record the truncation specification starts from.
MaxTag == 1
\* The truncation specification starts from buffers of up to this many records
\* more than the capacity.
MaxExcess == 1

(***************************************************************************)
(* Program constants (main.rs:38-55), scaled down; the relations the code  *)
(* asserts or relies on are kept: MIN_EXPLOITATION_BUFFER_LEN >=           *)
(* BATCH_SIZE, INITIAL_RANDOM_TARGETS >= PRE_TRAINING_STEPS * BATCH_SIZE,  *)
(* STEPS_PER_CHECKPOINT a multiple of STEPS_PER_SAVE,                      *)
(* PRE_TRAINING_STEPS = STEPS_PER_CHECKPOINT < STEPS_BEFORE_REANALYZE, the *)
(* two buffer capacities equal, and both seeds equal to 1.                 *)
(***************************************************************************)
BATCH_SIZE == 2
STEPS_PER_SAVE == 2
STEPS_PER_CHECKPOINT == 4
PRE_TRAINING_STEPS == 4
INITIAL_RANDOM_TARGETS == BATCH_SIZE * 5
STEPS_BEFORE_REANALYZE == 5
MIN_EXPLOITATION_BUFFER_LEN == 2
MAX_EXPLOITATION_BUFFER_LEN == 2
MAX_REANALYZE_BUFFER_LEN == 2
EXPLOITATION_TARGET_USES_AVAILABLE == 1
REANALYZE_TARGET_USES_AVAILABLE == 1

VARIABLES
    pc,                         \* position of the process in main
    abort_cause,                \* why the process panicked, "none" if it did not
    dir,                        \* names of the files in args.directory
    streams,                    \* the two stream files, written by the workers
    found,                      \* result of get_model_path_with_most_steps
    starting_steps,
    model_steps,                \* the loop variable of the main loop
    using_reanalyze,
    exploitation_buffer,
    exploitation_targets_read,
    reanalyze_buffer,
    reanalyze_targets_read,
    batch,                      \* the records of the last batch composed
    errors,                     \* streams whose read error the last fill_buffers logged
    trained,                    \* calls of compute_loss_and_take_step in this run
    bootstrapped,               \* pre_training ran in this run
    pre_training_batches,       \* the batches pre_training trained on in this run
    checkpoint_io_failed,       \* a save or the load of a model failed in this run
    persisted,                  \* highest step counts at which snapshots were saved so far
    ledger                      \* per ingested target: its seed and its draws

vars == <<pc, abort_cause, dir, streams, found, starting_steps, model_steps,
          using_reanalyze, exploitation_buffer, exploitation_targets_read,
          reanalyze_buffer, reanalyze_targets_read, batch, errors, trained,
          bootstrapped, pre_training_batches, checkpoint_io_failed, persisted, ledger>>

(***************************************************************************)
(* File names, as sequences of characters.                                 *)
(***************************************************************************)
DigitChars == <<"0", "1", "2", "3", "4", "5", "6", "7", "8", "9">>

IsDigit(c) == \E d \in 1..10 : DigitChars[d] = c

DigitValue(c) == (CHOOSE d \in 1..10 : DigitChars[d] = c) - 1

\* ToString of a usize: its decimal digits, no leading zeros.
RECURSIVE to_string(_)
to_string(n) ==
    IF n < 10 THEN <<DigitChars[n + 1]>>
    ELSE to_string(n \div 10) \o <<DigitChars[(n % 10) + 1]>>

\* The {:0>w} format: pad with '0' on the left up to width w, never cut.
RECURSIVE pad_left(_, _)
pad_left(s, w) == IF Len(s) >= w THEN s ELSE pad_left(<<"0">> \o s, w)

\* format!("model_{:0>6}.ot", steps)
format_model(steps) ==
    <<"m", "o", "d", "e", "l", "_">> \o pad_left(to_string(steps), 6) \o <<".", "o", "t">>

model_latest == <<"m", "o", "d", "e", "l", "_", "l", "a", "t", "e", "s", "t", ".", "o", "t">>

targets_initial ==
    <<"t", "a", "r", "g", "e", "t", "s", "-", "i", "n", "i", "t", "i", "a", "l", ".", "t", "x", "t">>

\* Index of the last '.' of a file name that splits it into stem and
\* extension; 0 when there is none or when the only one is the first character.
LastDot(name) ==
    LET dots == {i \in 1..Len(name) : name[i] = "."}
        last == IF dots = {} THEN 0 ELSE CHOOSE i \in dots : \A j \in dots : j <= i
    IN  IF last <= 1 THEN 0 ELSE last

\* Path::extension; the empty sequence stands for None (and for an empty extension,
\* which is not "ot" either).
extension(name) ==
    IF LastDot(name) = 0 THEN <<>> ELSE SubSeq(name, LastDot(name) + 1, Len(name))

\* Path::file_stem
file_stem(name) ==
    IF LastDot(name) = 0 THEN name ELSE SubSeq(name, 1, LastDot(name) - 1)

\* str::split_once(c).1: what follows the first c; <<"!">> when c does not occur
\* (a sequence no usize parses from).
after_split_once(s, c) ==
    LET at == {i \in 1..Len(s) : s[i] = c}
    IN  IF at = {} THEN <<"!">>
        ELSE SubSeq(s, (CHOOSE i \in at : \A j \in at : i <= j) + 1, Len(s))

RECURSIVE digits_value(_)
digits_value(s) ==
    IF Len(s) = 0 THEN 0
    ELSE 10 * digits_value(SubSeq(s, 1, Len(s) - 1)) + DigitValue(s[Len(s)])

\* str::parse::<usize>: an optional '+' and at least one digit; -1 stands for Err.
parse_usize(s) ==
    LET digits == IF Len(s) > 0 /\ s[1] = "+" THEN Tail(s) ELSE s
    IN  IF Len(digits) = 0 \/ \E i \in 1..Len(digits) : ~IsDigit(digits[i])
        THEN -1
        ELSE digits_value(digits)

\* The step number the closure of the filter_map reads from a path, -1 for None.
steps_of_path(p) == parse_usize(after_split_once(file_stem(p), "_"))

NoModel == [steps |-> -1, path |-> <<>>]

\* Fault: the filter on the ".ot" extension is left out.
get_model_path_any_extension(directory) ==
    LET models == {p \in directory : steps_of_path(p) >= 0}
        most == {p \in models : \A q \in models : steps_of_path(q) <= steps_of_path(p)}
    IN  IF models = {} THEN {NoModel}
        ELSE {[steps |-> steps_of_path(p), path |-> p] : p \in most}

\* Fault: the model with the fewest steps is taken (min_by_key).
get_model_path_with_fewest_steps(directory) ==
    LET models == {p \in directory : extension(p) = <<"o", "t">> /\ steps_of_path(p) >= 0}
        least == {p \in models : \A q \in models : steps_of_path(p) <= steps_of_path(q)}
    IN  IF models = {} THEN {NoModel}
        ELSE {[steps |-> steps_of_path(p), path |-> p] : p \in least}

\* Every result max_by_key can give: read_dir yields the entries in no
\* particular order, so among paths with the same step number any may come last.
get_model_path_with_most_steps(directory) ==
    LET models == {p \in directory : extension(p) = <<"o", "t">> /\ steps_of_path(p) >= 0}
        most == {p \in models : \A q \in models : steps_of_path(q) <= steps_of_path(p)}
    IN  IF models = {} THEN {NoModel}
        ELSE {[steps |-> steps_of_path(p), path |-> p] : p \in most}

\* net.save(path).unwrap(): the file is written, or the save fails (leaving
\* the file or not) and unwrap panics.
save(directory, name) ==
    {[ok |-> TRUE, dir |-> directory \cup {name}],
     [ok |-> FALSE, dir |-> directory \cup {name}],
     [ok |-> FALSE, dir |-> directory]}

\* Fault: the result of the save or load is discarded and control goes on.
unwrap_discarded(ok) == TRUE

\* Result::unwrap and Result::expect on the result of a save or a load:
\* control goes on when the result is Ok, the process panics when it is Err.
unwrap(ok) == ok

(***************************************************************************)
(* Stream files and buffers.                                               *)
(***************************************************************************)
selfplay == "targets-selfplay.txt"
reanalyze == "targets-reanalyze.txt"
StreamNames == {selfplay, reanalyze}

\* A stream file: whether the reader can open it, and its lines. A file that
\* was never written does not exist and cannot be opened.
\* A line is a well-formed target ("ok"), text that does not parse as a target
\* ("bad"), or bytes that are not UTF-8 ("binary"). The last line can also be
\* the first part of a target that a worker is still writing ("partial"): text
\* without its newline, which BufRead::lines yields as a line and which does
\* not parse.
LineKinds == {"ok", "bad", "binary", "partial"}

NoFile == [openable |-> FALSE, lines |-> <<>>]

\* Fault: the record is built without the model_steps of the read.
TargetWithoutSteps(name, i, uses_available, steps) ==
    [target |-> [file |-> name, line |-> i],
     uses_available |-> uses_available,
     model_steps |-> 0]

\* The record fill_buffer_with_targets builds from line i of a file.
TargetWithContext(name, i, uses_available, steps) ==
    [target |-> [file |-> name, line |-> i],
     uses_available |-> uses_available,
     model_steps |-> steps]

\* The records of the "ok" lines from..to of a file, in order.
RECURSIVE parse_lines(_, _, _, _, _, _)
parse_lines(lines, name, from, to, uses_available, steps) ==
    IF from > to THEN <<>>
    ELSE (IF lines[from] = "ok"
          THEN <<TargetWithContext(name, from, uses_available, steps)>>
          ELSE <<>>)
         \o parse_lines(lines, name, from + 1, to, uses_available, steps)

\* Fault: the cursor counts the lines that parsed instead of the lines taken.
fill_buffer_counting_parsed(buffer, targets_already_read, file, name, uses_available, steps) ==
    IF ~file.openable
    THEN [buffer |-> buffer, targets_already_read |-> targets_already_read, result |-> "Err"]
    ELSE LET n == Len(file.lines)
             unread == {i \in 1..n : i > targets_already_read}
             unreadable == {i \in unread : file.lines[i] = "binary"}
             stop == IF unreadable = {} THEN n
                     ELSE CHOOSE i \in unreadable : \A j \in unreadable : i <= j
             to == IF unreadable = {} THEN stop ELSE stop - 1
             parsed == parse_lines(file.lines, name, targets_already_read + 1, to,
                                   uses_available, steps)
         IN  [buffer |-> buffer \o parsed,
              targets_already_read |-> targets_already_read + Len(parsed),
              result |-> IF unreadable = {} THEN "Ok" ELSE "panic"]

\* Fault: a failed open rewinds the stream: the cursor goes back to 0 and the
\* records of the stream are dropped.
fill_buffer_rewinding(buffer, targets_already_read, file, name, uses_available, steps) ==
    IF ~file.openable
    THEN [buffer |-> <<>>, targets_already_read |-> 0, result |-> "Err"]
    ELSE LET n == Len(file.lines)
             unread == {i \in 1..n : i > targets_already_read}
             unreadable == {i \in unread : file.lines[i] = "binary"}
             stop == IF unreadable = {} THEN n
                     ELSE CHOOSE i \in unreadable : \A j \in unreadable : i <= j
             taken == {i \in unread : i <= stop}
             to == IF unreadable = {} THEN stop ELSE stop - 1
         IN  [buffer |-> buffer \o parse_lines(file.lines, name, targets_already_read + 1,
                                               to, uses_available, steps),
              targets_already_read |-> targets_already_read + Cardinality(taken),
              result |-> IF unreadable = {} THEN "Ok" ELSE "panic"]

\* fill_buffer_with_targets. The open fails before anything is touched (Err).
\* Otherwise the lines after the first targets_already_read are taken one by
\* one: the cursor is incremented, the line unwrapped (a panic if it is not
\* text), parsed, and pushed if it parsed.
fill_buffer_with_targets(buffer, targets_already_read, file, name, uses_available, steps) ==
    IF ~file.openable
    THEN [buffer |-> buffer, targets_already_read |-> targets_already_read, result |-> "Err"]
    ELSE LET n == Len(file.lines)
             unread == {i \in 1..n : i > targets_already_read}
             unreadable == {i \in unread : file.lines[i] = "binary"}
             stop == IF unreadable = {} THEN n
                     ELSE CHOOSE i \in unreadable : \A j \in unreadable : i <= j
             taken == {i \in unread : i <= stop}
             to == IF unreadable = {} THEN stop ELSE stop - 1
         IN  [buffer |-> buffer \o parse_lines(file.lines, name, targets_already_read + 1,
                                               to, uses_available, steps),
              targets_already_read |-> targets_already_read + Cardinality(taken),
              result |-> IF unreadable = {} THEN "Ok" ELSE "panic"]

\* Every order of the elements of a sequence.
Orders(buffer) ==
    IF Len(buffer) = 0 THEN {<<>>}
    ELSE {[i \in 1..Len(buffer) |-> buffer[p[i]]] : p \in Permutations(1..Len(buffer))}

\* Fault: every place is filled with a record picked at random from the
\* buffer, so a record can come up more than once.
sample_with_replacement(buffer) ==
    IF Len(buffer) = 0 THEN {<<>>}
    ELSE [1..Len(buffer) -> {buffer[i] : i \in 1..Len(buffer)}]

\* Vec::shuffle: any order.
shuffle(buffer) == Orders(buffer)

\* Fault: the Reverse is left out, so the sort puts the smallest pairs first.
KeyAtMost(a, b) ==
    \/ a.model_steps < b.model_steps
    \/ a.model_steps = b.model_steps /\ a.uses_available <= b.uses_available

\* The key of the sort is Reverse((model_steps, uses_available)): a comes no
\* later than b when its pair is lexicographically at least b's.
KeyAtLeast(a, b) ==
    \/ a.model_steps > b.model_steps
    \/ a.model_steps = b.model_steps /\ a.uses_available >= b.uses_available

\* sort_unstable_by_key: any sorted order (equal keys in any order).
sort_unstable_by_key(buffer) ==
    {s \in Orders(buffer) : \A i \in 1..(Len(s) - 1) : KeyAtLeast(s[i], s[i + 1])}

\* Fault: the truncation keeps one record too many.
truncate_buffer_one_over(buffer, max_length) ==
    IF Len(buffer) > max_length
    THEN {SubSeq(s, 1, max_length + 1) : s \in sort_unstable_by_key(buffer)}
    ELSE {buffer}

\* truncate_buffer_if_needed: the possible results.
truncate_buffer_if_needed(buffer, max_length) ==
    IF Len(buffer) > max_length
    THEN {SubSeq(s, 1, max_length) : s \in sort_unstable_by_key(buffer)}
    ELSE {buffer}

\* Fault: the comparison is with 0, so a last use is handed back with 0 uses.
reuse_while_positive(t) ==
    IF t.uses_available > 0
    THEN <<[t EXCEPT !.uses_available = t.uses_available - 1]>>
    ELSE <<>>

\* Fault: the decrement is left out.
\* Fault: the test on the uses left is left out, and the target is put back
\* after every draw.
reuse_unchecked(t) == <<[t EXCEPT !.uses_available = t.uses_available - 1]>>

reuse_without_decrement(t) == IF t.uses_available > 1 THEN <<t>> ELSE <<>>

\* TargetWithContext::reuse; the Option is a sequence of length 0 or 1.
reuse(t) ==
    IF t.uses_available > 1
    THEN <<[t EXCEPT !.uses_available = t.uses_available - 1]>>
    ELSE <<>>

\* iter.filter_map(TargetWithContext::reuse)
RECURSIVE filter_map_reuse(_)
filter_map_reuse(s) ==
    IF Len(s) = 0 THEN <<>> ELSE reuse(Head(s)) \o filter_map_reuse(Tail(s))

\* The smaller of two numbers.
Min(a, b) == IF a <= b THEN a ELSE b

\* The pool of pre_training after the shuffle is a vector of len targets; a
\* target of the pool is named by its place in that vector.
\* Fault: windows instead of chunks_exact: slice s starts at place s.
windows(len, size) ==
    [s \in 1..(IF len >= size THEN len - size + 1 ELSE 0) |-> [i \in 1..size |-> s - 1 + i]]

\* slice::chunks_exact: the slices of size places each, one after the other;
\* what is left over at the end is in no slice.
chunks_exact(len, size) ==
    [s \in 1..(len \div size) |-> [i \in 1..size |-> (s - 1) * size + i]]

\* Iterator::take
take(iter, n) == SubSeq(iter, 1, Min(n, Len(iter)))

\* The lengths the pool can have when the while loop of lines 327-350 ends.
PoolLengths == INITIAL_RANDOM_TARGETS..(INITIAL_RANDOM_TARGETS + MaxOvershoot)

\* Lines 365-368: the batches pre_training trains on, one step each.
pre_training(len) == take(chunks_exact(len, BATCH_SIZE), PRE_TRAINING_STEPS)

\* Fault: pre-training whatever the starting step.
needs_pre_training_always(steps) == TRUE

\* Line 115: pre-training is for a model at step 0.
needs_pre_training(steps) == steps = 0

\* Fault: the phase is mixed only at the threshold itself.
phase_is_mixed_at_threshold(steps) == steps = STEPS_BEFORE_REANALYZE

\* Line 134: the phase of an iteration.
phase_is_mixed(steps) == steps >= STEPS_BEFORE_REANALYZE

\* Line 146.
enough_exploitation_targets(buffer) == Len(buffer) >= MIN_EXPLOITATION_BUFFER_LEN

\* Fault: the reanalyze buffer is not looked at.
enough_reanalyze_unchecked(mixed, buffer) == TRUE

\* Fault: the reanalyze buffer is looked at in either phase.
enough_reanalyze_any_phase(mixed, buffer) == Len(buffer) >= BATCH_SIZE \div 2

\* Line 147.
enough_reanalyze_targets(mixed, buffer) == ~mixed \/ Len(buffer) >= BATCH_SIZE \div 2

\* create_batch can run without a panic: buffer.len() - count does not
\* underflow (in a release build it wraps and the drain's range check panics).
can_drain(mixed, e_buffer, r_buffer) ==
    IF mixed
    THEN Len(e_buffer) >= BATCH_SIZE \div 2 /\ Len(r_buffer) >= BATCH_SIZE \div 2
    ELSE Len(e_buffer) >= BATCH_SIZE

\* Fault: in the mixed phase the take(BATCH_SIZE / 2) is left out, so every
\* record of the batch with uses left goes back to the exploitation buffer.
create_batch_unsplit(mixed, e_buffer, r_buffer) ==
    {IF mixed
     THEN LET half == BATCH_SIZE \div 2
              drawn == SubSeq(es, Len(es) - half + 1, Len(es))
                       \o SubSeq(rs, Len(rs) - half + 1, Len(rs))
          IN  [batch |-> drawn,
               exploitation_buffer |->
                   SubSeq(es, 1, Len(es) - half) \o filter_map_reuse(drawn),
               reanalyze_buffer |-> SubSeq(rs, 1, Len(rs) - half)]
     ELSE LET drawn == SubSeq(es, Len(es) - BATCH_SIZE + 1, Len(es))
          IN  [batch |-> drawn,
               exploitation_buffer |->
                   SubSeq(es, 1, Len(es) - BATCH_SIZE) \o filter_map_reuse(drawn),
               reanalyze_buffer |-> rs]
     : es \in shuffle(e_buffer), rs \in shuffle(r_buffer)}

\* create_batch, for buffers it can drain: every outcome of the two shuffles.
create_batch(mixed, e_buffer, r_buffer) ==
    {IF mixed
     THEN LET half == BATCH_SIZE \div 2
              drawn == SubSeq(es, Len(es) - half + 1, Len(es))
                       \o SubSeq(rs, Len(rs) - half + 1, Len(rs))
          IN  [batch |-> drawn,
               exploitation_buffer |->
                   SubSeq(es, 1, Len(es) - half) \o filter_map_reuse(SubSeq(drawn, 1, half)),
               reanalyze_buffer |->
                   SubSeq(rs, 1, Len(rs) - half)
                   \o filter_map_reuse(SubSeq(drawn, half + 1, Len(drawn)))]
     ELSE LET drawn == SubSeq(es, Len(es) - BATCH_SIZE + 1, Len(es))
          IN  [batch |-> drawn,
               exploitation_buffer |->
                   SubSeq(es, 1, Len(es) - BATCH_SIZE) \o filter_map_reuse(drawn),
               reanalyze_buffer |-> rs]
     : es \in shuffle(e_buffer), rs \in shuffle(r_buffer)}


\* Fault: the reanalyze stream is read and its buffer cut in either phase.
fill_buffers_both_streams(e_buffer, e_read, r_buffer, r_read, files, steps, mixed) ==
    LET e == fill_buffer_with_targets(e_buffer, e_read, files[selfplay], selfplay,
                                      EXPLOITATION_TARGET_USES_AVAILABLE, steps)
        e_err == IF e.result = "Err" THEN {selfplay} ELSE {}
        r == fill_buffer_with_targets(r_buffer, r_read, files[reanalyze], reanalyze,
                                      REANALYZE_TARGET_USES_AVAILABLE, steps)
        r_err == IF r.result = "Err" THEN {reanalyze} ELSE {}
    IN  IF e.result = "panic"
        THEN {[exploitation_buffer |-> e.buffer, exploitation_targets_read |-> e.targets_already_read,
               reanalyze_buffer |-> r_buffer, reanalyze_targets_read |-> r_read,
               errors |-> {}, panicked |-> TRUE]}
        ELSE IF r.result = "panic"
        THEN {[exploitation_buffer |-> et, exploitation_targets_read |-> e.targets_already_read,
               reanalyze_buffer |-> r.buffer, reanalyze_targets_read |-> r.targets_already_read,
               errors |-> e_err, panicked |-> TRUE]
              : et \in truncate_buffer_if_needed(e.buffer, MAX_EXPLOITATION_BUFFER_LEN)}
        ELSE {[exploitation_buffer |-> et, exploitation_targets_read |-> e.targets_already_read,
               reanalyze_buffer |-> rt, reanalyze_targets_read |-> r.targets_already_read,
               errors |-> e_err \cup r_err, panicked |-> FALSE]
              : et \in truncate_buffer_if_needed(e.buffer, MAX_EXPLOITATION_BUFFER_LEN),
                rt \in truncate_buffer_if_needed(r.buffer, MAX_EXPLOITATION_BUFFER_LEN)}

\* fill_buffers: every outcome (the sorts leave equal keys in any order). The
\* reanalyze stream is read only in the mixed phase, and its buffer is cut to
\* MAX_EXPLOITATION_BUFFER_LEN, as line 453 has it.
fill_buffers(e_buffer, e_read, r_buffer, r_read, files, steps, mixed) ==
    LET e == fill_buffer_with_targets(e_buffer, e_read, files[selfplay], selfplay,
                                      EXPLOITATION_TARGET_USES_AVAILABLE, steps)
        e_err == IF e.result = "Err" THEN {selfplay} ELSE {}
        r == fill_buffer_with_targets(r_buffer, r_read, files[reanalyze], reanalyze,
                                      REANALYZE_TARGET_USES_AVAILABLE, steps)
        r_err == IF r.result = "Err" THEN {reanalyze} ELSE {}
    IN  IF e.result = "panic"
        THEN {[exploitation_buffer |-> e.buffer, exploitation_targets_read |-> e.targets_already_read,
               reanalyze_buffer |-> r_buffer, reanalyze_targets_read |-> r_read,
               errors |-> {}, panicked |-> TRUE]}
        ELSE IF ~mixed
        THEN {[exploitation_buffer |-> et, exploitation_targets_read |-> e.targets_already_read,
               reanalyze_buffer |-> r_buffer, reanalyze_targets_read |-> r_read,
               errors |-> e_err, panicked |-> FALSE]
              : et \in truncate_buffer_if_needed(e.buffer, MAX_EXPLOITATION_BUFFER_LEN)}
        ELSE IF r.result = "panic"
        THEN {[exploitation_buffer |-> et, exploitation_targets_read |-> e.targets_already_read,
               reanalyze_buffer |-> r.buffer, reanalyze_targets_read |-> r.targets_already_read,
               errors |-> e_err, panicked |-> TRUE]
              : et \in truncate_buffer_if_needed(e.buffer, MAX_EXPLOITATION_BUFFER_LEN)}
        ELSE {[exploitation_buffer |-> et, exploitation_targets_read |-> e.targets_already_read,
               reanalyze_buffer |-> rt, reanalyze_targets_read |-> r.targets_already_read,
               errors |-> e_err \cup r_err, panicked |-> FALSE]
              : et \in truncate_buffer_if_needed(e.buffer, MAX_EXPLOITATION_BUFFER_LEN),
                rt \in truncate_buffer_if_needed(r.buffer, MAX_EXPLOITATION_BUFFER_LEN)}

(***************************************************************************)
(* The ledger: which targets this run ingested, with what seed, and how    *)
(* often each was drawn into a batch.                                      *)
(***************************************************************************)
Targets(buffer) == {buffer[i].target : i \in 1..Len(buffer)}

EmptyLedger == [t \in {} |-> [seed |-> 0, draws |-> 0]]

\* The targets of file name that a read moving the cursor from from to to parses.
Ingested(files, name, from, to) ==
    {[file |-> name, line |-> i] : i \in {j \in (from + 1)..to : files[name].lines[j] = "ok"}}

WithIngested(l, new, seed) ==
    [t \in DOMAIN l \cup new |-> IF t \in new THEN [seed |-> seed, draws |-> 0] ELSE l[t]]

WithDrawn(l, drawn) ==
    [t \in DOMAIN l |-> IF t \in Targets(drawn) THEN [l[t] EXCEPT !.draws = l[t].draws + 1]
                        ELSE l[t]]

(***************************************************************************)
(* The process.                                                            *)
(***************************************************************************)
\* No snapshot has been saved yet.
NoSnapshots == [latest |-> -1, numbered |-> -1]

Max(a, b) == IF a >= b THEN a ELSE b

\* The record of the snapshots after a save of the given kind at the given
\* step count, which succeeded or not.
Persisted(p, kind, ok, steps) ==
    IF ok THEN [p EXCEPT ![kind] = Max(@, steps)] ELSE p

\* What the directory holds when the process is first started.
InitDirs ==
    {{}, {format_model(0)}, {format_model(0), format_model(STEPS_BEFORE_REANALYZE), model_latest}}

Locals ==
    /\ pc = "start"
    /\ abort_cause = "none"
    /\ found = NoModel
    /\ starting_steps = 0
    /\ model_steps = 0
    /\ using_reanalyze = FALSE
    /\ exploitation_buffer = <<>>
    /\ exploitation_targets_read = 0
    /\ reanalyze_buffer = <<>>
    /\ reanalyze_targets_read = 0
    /\ batch = <<>>
    /\ errors = {}
    /\ trained = 0
    /\ bootstrapped = FALSE
    /\ pre_training_batches = <<>>
    /\ checkpoint_io_failed = FALSE
    /\ ledger = EmptyLedger

Init ==
    /\ Locals
    /\ persisted = NoSnapshots
    /\ dir \in InitDirs
    /\ streams = [name \in StreamNames |-> NoFile]

Abort(cause) ==
    /\ pc' = "aborted"
    /\ abort_cause' = cause

\* Lines 94-112: load the most advanced model or create and save a new one.
LoadOrCreate ==
    /\ pc = "start"
    /\ \E r \in get_model_path_with_most_steps(dir) :
        /\ found' = r
        /\ IF r # NoModel
           THEN \E loadable \in BOOLEAN :
                    /\ checkpoint_io_failed' = ~loadable
                    /\ IF unwrap(loadable)
                       THEN /\ starting_steps' = r.steps
                            /\ pc' = "pre_training"
                            /\ UNCHANGED abort_cause
                       ELSE /\ Abort("load")
                            /\ UNCHANGED starting_steps
                    /\ UNCHANGED <<dir, persisted>>
           ELSE \E s \in save(dir, format_model(0)) :
                    /\ dir' = s.dir
                    /\ persisted' = Persisted(persisted, "numbered", s.ok, 0)
                    /\ checkpoint_io_failed' = ~s.ok
                    /\ IF unwrap(s.ok)
                       THEN /\ starting_steps' = 0
                            /\ pc' = "pre_training"
                            /\ UNCHANGED abort_cause
                       ELSE /\ Abort("save")
                            /\ UNCHANGED starting_steps
    /\ UNCHANGED <<streams, model_steps, using_reanalyze, exploitation_buffer,
                   exploitation_targets_read, reanalyze_buffer, reanalyze_targets_read,
                   batch, errors, trained, bootstrapped, pre_training_batches, ledger>>

\* Lines 114-133: pre-train a model that is at step 0, save it, set up the
\* empty buffers and enter the loop at starting_steps.
PreTraining ==
    /\ pc = "pre_training"
    /\ IF needs_pre_training(starting_steps)
       THEN \E w \in save(dir, targets_initial) :
            \E s \in save(w.dir, format_model(starting_steps + PRE_TRAINING_STEPS)) :
                IF ~w.ok
                THEN /\ Abort("write")
                     /\ dir' = w.dir
                     /\ UNCHANGED <<starting_steps, model_steps, trained, bootstrapped,
                                    pre_training_batches, checkpoint_io_failed, persisted>>
                ELSE /\ bootstrapped' = TRUE
                     /\ \E len \in PoolLengths :
                            /\ pre_training_batches' = pre_training(len)
                            /\ trained' = trained + Len(pre_training_batches')
                     /\ starting_steps' = starting_steps + PRE_TRAINING_STEPS
                     /\ dir' = s.dir
                     /\ persisted' = Persisted(persisted, "numbered", s.ok, starting_steps')
                     /\ checkpoint_io_failed' = ~s.ok
                     /\ IF unwrap(s.ok)
                        THEN /\ model_steps' = starting_steps'
                             /\ pc' = "fill"
                             /\ UNCHANGED abort_cause
                        ELSE /\ Abort("save")
                             /\ UNCHANGED model_steps
       ELSE /\ model_steps' = starting_steps
            /\ pc' = "fill"
            /\ UNCHANGED <<abort_cause, dir, starting_steps, trained, bootstrapped,
                           pre_training_batches, checkpoint_io_failed, persisted>>
    /\ exploitation_buffer' = <<>>
    /\ exploitation_targets_read' = 0
    /\ reanalyze_buffer' = <<>>
    /\ reanalyze_targets_read' = 0
    /\ UNCHANGED <<streams, found, using_reanalyze, batch, errors, ledger>>

\* Lines 134-143: the phase of this iteration and fill_buffers.
FillBuffers ==
    /\ pc = "fill"
    /\ using_reanalyze' = phase_is_mixed(model_steps)
    /\ \E f \in fill_buffers(exploitation_buffer, exploitation_targets_read, reanalyze_buffer,
                             reanalyze_targets_read, streams, model_steps, using_reanalyze') :
        /\ exploitation_buffer' = f.exploitation_buffer
        /\ exploitation_targets_read' = f.exploitation_targets_read
        /\ reanalyze_buffer' = f.reanalyze_buffer
        /\ reanalyze_targets_read' = f.reanalyze_targets_read
        /\ errors' = f.errors
        /\ ledger' = WithIngested(
                        WithIngested(ledger,
                                     Ingested(streams, selfplay, exploitation_targets_read,
                                              f.exploitation_targets_read),
                                     EXPLOITATION_TARGET_USES_AVAILABLE),
                        Ingested(streams, reanalyze, reanalyze_targets_read,
                                 f.reanalyze_targets_read),
                        REANALYZE_TARGET_USES_AVAILABLE)
        /\ IF f.panicked
           THEN Abort("line")
           ELSE pc' = "check" /\ UNCHANGED abort_cause
    /\ UNCHANGED <<dir, streams, found, starting_steps, model_steps, batch, trained,
                   bootstrapped, pre_training_batches, checkpoint_io_failed, persisted>>

\* Lines 146-148: the readiness decision.
Check ==
    /\ pc = "check"
    /\ pc' = IF /\ enough_exploitation_targets(exploitation_buffer)
                /\ enough_reanalyze_targets(using_reanalyze, reanalyze_buffer)
             THEN "batch"
             ELSE "sleep"
    /\ UNCHANGED <<abort_cause, dir, streams, found, starting_steps, model_steps,
                   using_reanalyze, exploitation_buffer, exploitation_targets_read,
                   reanalyze_buffer, reanalyze_targets_read, batch, errors, trained,
                   bootstrapped, pre_training_batches, checkpoint_io_failed, persisted, ledger>>

\* A call of create_batch followed by compute_loss_and_take_step (lines 149-155).
Compose(mixed) ==
    IF can_drain(mixed, exploitation_buffer, reanalyze_buffer)
    THEN \E c \in create_batch(mixed, exploitation_buffer, reanalyze_buffer) :
            /\ batch' = c.batch
            /\ exploitation_buffer' = c.exploitation_buffer
            /\ reanalyze_buffer' = c.reanalyze_buffer
            /\ ledger' = WithDrawn(ledger, c.batch)
            /\ trained' = trained + 1
            /\ pc' = "save"
            /\ UNCHANGED abort_cause
    ELSE /\ Abort("drain")
         /\ UNCHANGED <<batch, exploitation_buffer, reanalyze_buffer, ledger, trained>>

Train ==
    /\ pc = "batch"
    /\ Compose(using_reanalyze)
    /\ UNCHANGED <<dir, streams, found, starting_steps, model_steps, using_reanalyze,
                   exploitation_targets_read, reanalyze_targets_read, errors, bootstrapped,
                   pre_training_batches, checkpoint_io_failed, persisted>>

\* Lines 157-183 and the step of the for loop: the rolling and the numbered
\* save of this iteration, then model_steps + 1.
SaveModels ==
    /\ pc = "save"
    /\ model_steps < MaxSteps
    /\ \E l \in (IF model_steps % STEPS_PER_SAVE = 0
                 THEN save(dir, model_latest)
                 ELSE {[ok |-> TRUE, dir |-> dir]}) :
       \E n \in (IF model_steps % STEPS_PER_CHECKPOINT = 0
                 THEN save(l.dir, format_model(model_steps))
                 ELSE {[ok |-> TRUE, dir |-> l.dir]}) :
            IF ~unwrap(l.ok)
            THEN /\ Abort("save")
                 /\ dir' = l.dir
                 /\ checkpoint_io_failed' = TRUE
                 /\ UNCHANGED persisted
                 /\ UNCHANGED model_steps
            ELSE /\ dir' = n.dir
                 /\ persisted' =
                        Persisted(Persisted(persisted, "latest",
                                            l.ok /\ model_steps % STEPS_PER_SAVE = 0, model_steps),
                                  "numbered",
                                  n.ok /\ model_steps % STEPS_PER_CHECKPOINT = 0, model_steps)
                 /\ checkpoint_io_failed' = (checkpoint_io_failed \/ ~l.ok \/ ~n.ok)
                 /\ IF unwrap(n.ok)
                    THEN /\ model_steps' = model_steps + 1
                         /\ pc' = "fill"
                         /\ UNCHANGED abort_cause
                    ELSE /\ Abort("save")
                         /\ UNCHANGED model_steps
    /\ UNCHANGED <<streams, found, starting_steps, using_reanalyze, exploitation_buffer,
                   exploitation_targets_read, reanalyze_buffer, reanalyze_targets_read,
                   batch, errors, trained, bootstrapped, pre_training_batches, ledger>>

\* Lines 184-197 and the step of the for loop: wait, then model_steps + 1.
Sleep ==
    /\ pc = "sleep"
    /\ model_steps < MaxSteps
    /\ model_steps' = model_steps + 1
    /\ pc' = "fill"
    /\ UNCHANGED <<abort_cause, dir, streams, found, starting_steps, using_reanalyze,
                   exploitation_buffer, exploitation_targets_read, reanalyze_buffer,
                   reanalyze_targets_read, batch, errors, trained, bootstrapped,
                   pre_training_batches, checkpoint_io_failed, persisted, ledger>>

\* The process is stopped (or has panicked) and is started again: the
\* directory and the stream files stay, everything in memory is new.
Restart ==
    /\ pc # "start"
    /\ pc' = "start"
    /\ abort_cause' = "none"
    /\ found' = NoModel
    /\ starting_steps' = 0
    /\ model_steps' = 0
    /\ using_reanalyze' = FALSE
    /\ exploitation_buffer' = <<>>
    /\ exploitation_targets_read' = 0
    /\ reanalyze_buffer' = <<>>
    /\ reanalyze_targets_read' = 0
    /\ batch' = <<>>
    /\ errors' = {}
    /\ trained' = 0
    /\ bootstrapped' = FALSE
    /\ pre_training_batches' = <<>>
    /\ checkpoint_io_failed' = FALSE
    /\ ledger' = EmptyLedger
    /\ UNCHANGED <<dir, streams, persisted>>

\* The last line of a stream file is still being written.
LastLinePartial(name) ==
    /\ streams[name].lines # <<>>
    /\ streams[name].lines[Len(streams[name].lines)] = "partial"

\* The number of lines of a stream file that are not well-formed targets.
NotOkLines(name) ==
    Cardinality({i \in 1..Len(streams[name].lines) : streams[name].lines[i] # "ok"})

\* A worker appends one line to a stream file, or the first part of one,
\* creating the file if needed.
AppendLine(name, kind) ==
    /\ Len(streams[selfplay].lines) + Len(streams[reanalyze].lines) < MaxLines
    /\ ~LastLinePartial(name)
    /\ kind # "ok" => NotOkLines(selfplay) + NotOkLines(reanalyze) < MaxBadLines
    /\ streams' = [streams EXCEPT ![name] =
                        [openable |-> IF @.lines = <<>> THEN TRUE ELSE @.openable,
                         lines |-> Append(@.lines, kind)]]
    /\ UNCHANGED <<pc, abort_cause, dir, found, starting_steps, model_steps, using_reanalyze,
                   exploitation_buffer, exploitation_targets_read, reanalyze_buffer,
                   reanalyze_targets_read, batch, errors, trained, bootstrapped,
                   pre_training_batches, checkpoint_io_failed, persisted, ledger>>

\* A worker writes the rest of the line it had written in part.
CompleteLine(name) ==
    /\ LastLinePartial(name)
    /\ streams' = [streams EXCEPT ![name].lines[Len(streams[name].lines)] = "ok"]
    /\ UNCHANGED <<pc, abort_cause, dir, found, starting_steps, model_steps, using_reanalyze,
                   exploitation_buffer, exploitation_targets_read, reanalyze_buffer,
                   reanalyze_targets_read, batch, errors, trained, bootstrapped,
                   pre_training_batches, checkpoint_io_failed, persisted, ledger>>

Worker ==
    \/ \E name \in StreamNames, kind \in LineKinds : AppendLine(name, kind)
    \/ \E name \in StreamNames : CompleteLine(name)

\* A stream file that has been written becomes impossible to open for the
\* reader (moved away, permissions), or possible again.
\* Only fill_buffers opens the files, so a change at
\* any other point of the loop is the same as one just before the call.
SetOpenable(name) ==
    /\ pc = "fill"
    /\ streams[name].lines # <<>>
    /\ streams' = [streams EXCEPT ![name].openable = ~@]
    /\ UNCHANGED <<pc, abort_cause, dir, found, starting_steps, model_steps, using_reanalyze,
                   exploitation_buffer, exploitation_targets_read, reanalyze_buffer,
                   reanalyze_targets_read, batch, errors, trained, bootstrapped,
                   pre_training_batches, checkpoint_io_failed, persisted, ledger>>

Environment == \E name \in StreamNames : SetOpenable(name)

Next ==
    \/ LoadOrCreate
    \/ PreTraining
    \/ FillBuffers
    \/ Check
    \/ Train
    \/ SaveModels
    \/ Sleep
    \/ Restart
    \/ Worker
    \/ Environment

Spec == Init /\ [][Next]_vars


(***************************************************************************)
(* Checkpoint discovery on its own: start-up from any directory made of    *)
(* the names below.                                                        *)
(***************************************************************************)
model_000000 == <<"m", "o", "d", "e", "l", "_", "0", "0", "0", "0", "0", "0", ".", "o", "t">>
model_001000 == <<"m", "o", "d", "e", "l", "_", "0", "0", "1", "0", "0", "0", ".", "o", "t">>
model_005000 == <<"m", "o", "d", "e", "l", "_", "0", "0", "5", "0", "0", "0", ".", "o", "t">>
\* the same step as model_005000, not padded
model_5000 == <<"m", "o", "d", "e", "l", "_", "5", "0", "0", "0", ".", "o", "t">>
\* a numbered name that is no .ot file
model_009000_txt == <<"m", "o", "d", "e", "l", "_", "0", "0", "9", "0", "0", "0", ".", "t", "x", "t">>
\* no '_' before the number
model8000 == <<"m", "o", "d", "e", "l", "8", "0", "0", "0", ".", "o", "t">>
\* a suffix that is not a number
model_70x0 == <<"m", "o", "d", "e", "l", "_", "7", "0", "x", "0", ".", "o", "t">>

DiscoveryNames ==
    {model_000000, model_001000, model_005000, model_5000, model_latest,
     model_009000_txt, model8000, model_70x0}

InitDiscovery ==
    /\ Locals
    /\ persisted = NoSnapshots
    /\ dir \in SUBSET DiscoveryNames
    /\ streams = [name \in StreamNames |-> NoFile]

NextDiscovery == LoadOrCreate \/ PreTraining

SpecDiscovery == InitDiscovery /\ [][NextDiscovery]_vars

(***************************************************************************)
(* Batch composition on its own: any sequence of create_batch calls, in    *)
(* either phase, on buffers of records with seeds 1..MaxUses.              *)
(***************************************************************************)
\* The buffers of up to MaxBuffered records of one stream as ingestion leaves
\* them: every record with the seed of its stream, none drawn yet.
SeededBuffers(name) ==
    {[i \in 1..n |-> TargetWithContext(name, i, u, 0)] : n \in 0..MaxBuffered, u \in 1..MaxUses}

SeededLedger(e_buffer, r_buffer) ==
    [t \in Targets(e_buffer) \cup Targets(r_buffer) |->
        [seed |-> IF t.file = selfplay THEN e_buffer[t.line].uses_available
                  ELSE r_buffer[t.line].uses_available,
         draws |-> 0]]

InitBatch ==
    /\ pc = "batch"
    /\ abort_cause = "none"
    /\ dir = {}
    /\ persisted = NoSnapshots
    /\ streams = [name \in StreamNames |-> NoFile]
    /\ found = NoModel
    /\ starting_steps = 0
    /\ model_steps = 0
    /\ using_reanalyze = FALSE
    /\ exploitation_buffer \in SeededBuffers(selfplay)
    /\ reanalyze_buffer \in SeededBuffers(reanalyze)
    /\ exploitation_targets_read = 0
    /\ reanalyze_targets_read = 0
    /\ batch = <<>>
    /\ errors = {}
    /\ trained = 0
    /\ bootstrapped = FALSE
    /\ pre_training_batches = <<>>
    /\ checkpoint_io_failed = FALSE
    /\ ledger = SeededLedger(exploitation_buffer, reanalyze_buffer)

\* One more call of create_batch, in either phase.
CreateBatch ==
    /\ pc \in {"batch", "save"}
    /\ \E mixed \in BOOLEAN :
        /\ using_reanalyze' = mixed
        /\ Compose(mixed)
    /\ UNCHANGED <<dir, streams, found, starting_steps, model_steps,
                   exploitation_targets_read, reanalyze_targets_read, errors, bootstrapped,
                   pre_training_batches, checkpoint_io_failed, persisted>>

SpecBatch == InitBatch /\ [][CreateBatch]_vars


(***************************************************************************)
(* Truncation on its own: truncate_buffer_if_needed applied to any buffer  *)
(* of up to MAX_EXPLOITATION_BUFFER_LEN + MaxExcess records with tags      *)
(* 0..MaxTag and 1..MaxUses uses left.                                     *)
(***************************************************************************)
TaggedBuffers ==
    UNION {{[i \in 1..n |-> TargetWithContext(selfplay, i, uses[i], steps[i])]
            : uses \in [1..n -> 1..MaxUses], steps \in [1..n -> 0..MaxTag]}
           : n \in 0..(MAX_EXPLOITATION_BUFFER_LEN + MaxExcess)}

InitTruncate ==
    /\ pc = "truncate"
    /\ abort_cause = "none"
    /\ dir = {}
    /\ persisted = NoSnapshots
    /\ streams = [name \in StreamNames |-> NoFile]
    /\ found = NoModel
    /\ starting_steps = 0
    /\ model_steps = MaxTag
    /\ using_reanalyze = FALSE
    /\ exploitation_buffer \in TaggedBuffers
    /\ reanalyze_buffer = <<>>
    /\ exploitation_targets_read = 0
    /\ reanalyze_targets_read = 0
    /\ batch = <<>>
    /\ errors = {}
    /\ trained = 0
    /\ bootstrapped = FALSE
    /\ pre_training_batches = <<>>
    /\ checkpoint_io_failed = FALSE
    /\ ledger = EmptyLedger

\* The call of truncate_buffer_if_needed of lines 440-444.
Truncate ==
    /\ pc = "truncate"
    /\ pc' = "check"
    /\ exploitation_buffer' \in
           truncate_buffer_if_needed(exploitation_buffer, MAX_EXPLOITATION_BUFFER_LEN)
    /\ UNCHANGED <<abort_cause, dir, streams, found, starting_steps, model_steps,
                   using_reanalyze, exploitation_targets_read, reanalyze_buffer,
                   reanalyze_targets_read, batch, errors, trained, bootstrapped,
                   pre_training_batches, checkpoint_io_failed, persisted, ledger>>

SpecTruncate == InitTruncate /\ [][Truncate]_vars

(***************************************************************************)
(* Properties.                                                             *)
(***************************************************************************)
LoopPcs == {"fill", "check", "batch", "save", "sleep"}

Buffer(name) == IF name = selfplay THEN exploitation_buffer ELSE reanalyze_buffer

Cursor(name) == IF name = selfplay THEN exploitation_targets_read ELSE reanalyze_targets_read

\* C1: at every point of the loop after a truncation pass (the readiness
\* check, before and after create_batch, the wait, the next fill) each buffer
\* holds at most its own maximum: MAX_EXPLOITATION_BUFFER_LEN for the
\* exploitation buffer, MAX_REANALYZE_BUFFER_LEN for the reanalyze buffer.
C1_BufferCapacity ==
    pc \in LoopPcs =>
        /\ Len(exploitation_buffer) <= MAX_EXPLOITATION_BUFFER_LEN
        /\ Len(reanalyze_buffer) <= MAX_REANALYZE_BUFFER_LEN

\* A truncation pass has cut the reanalyze buffer: it is full, and a target
\* that was ingested and never drawn is no longer in it.
C1_Witness ==
    /\ pc = "check"
    /\ Len(reanalyze_buffer) = MAX_REANALYZE_BUFFER_LEN
    /\ \E t \in DOMAIN ledger :
        /\ t.file = reanalyze
        /\ ledger[t].draws = 0
        /\ t \notin Targets(reanalyze_buffer)

\* C2: in any sequence of create_batch calls (no truncation), a record seeded
\* with U uses that is still buffered has been drawn fewer than U times and
\* holds U minus its draws; a record that is no longer buffered has been drawn
\* exactly U times; no record is buffered twice.
C2_ReuseLifetime ==
    \A t \in DOMAIN ledger :
        LET e == {i \in 1..Len(exploitation_buffer) : exploitation_buffer[i].target = t}
            r == {i \in 1..Len(reanalyze_buffer) : reanalyze_buffer[i].target = t}
        IN  /\ Cardinality(e) + Cardinality(r) <= 1
            /\ \A i \in e :
                /\ exploitation_buffer[i].uses_available >= 1
                /\ ledger[t].draws + exploitation_buffer[i].uses_available = ledger[t].seed
            /\ \A i \in r :
                /\ reanalyze_buffer[i].uses_available >= 1
                /\ ledger[t].draws + reanalyze_buffer[i].uses_available = ledger[t].seed
            /\ (e = {} /\ r = {}) => ledger[t].draws = ledger[t].seed

\* A record seeded with more than one use has been drawn that many times and is gone.
C2_Witness ==
    \E t \in DOMAIN ledger :
        /\ ledger[t].seed >= 2
        /\ ledger[t].draws = ledger[t].seed
        /\ t \notin Targets(exploitation_buffer) \cup Targets(reanalyze_buffer)

\* The lines of a file after the first k that are well-formed targets.
WellFormedAfter(name, k) ==
    {i \in (k + 1)..Len(streams[name].lines) : streams[name].lines[i] = "ok"}

\* The lines of a file after the first k that are not text.
NotTextAfter(name, k) ==
    {i \in (k + 1)..Len(streams[name].lines) : streams[name].lines[i] = "binary"}

\* The j-th smallest element of a set of numbers.
Nth(S, j) == CHOOSE i \in S : Cardinality({x \in S : x <= i}) = j

\* fill_buffers read the file of this stream in the step at hand.
WasRead(name) ==
    /\ pc = "fill"
    /\ pc' \in {"check", "aborted"}
    /\ streams[name].openable
    /\ NotTextAfter(selfplay, exploitation_targets_read) = {}
    /\ name = reanalyze => using_reanalyze'

\* C3: when fill_buffers reads a stream file of n lines of text with the cursor
\* at k <= n, the cursor becomes n; the records of the well-formed lines among
\* k+1..n are appended in line order, each with the stream's seed and the
\* current model_steps (seen whenever the result fits the capacity, so that the
\* truncation pass leaves it alone); and a read of the same file right after
\* adds no record and leaves the cursor at n.
C3_IncrementalRead ==
    [][\A name \in StreamNames :
        LET old == Buffer(name)
            k == Cursor(name)
            n == Len(streams[name].lines)
            new == IF name = selfplay THEN exploitation_buffer' ELSE reanalyze_buffer'
            k2 == IF name = selfplay THEN exploitation_targets_read'
                  ELSE reanalyze_targets_read'
            parsed == WellFormedAfter(name, k)
            seed == IF name = selfplay THEN EXPLOITATION_TARGET_USES_AVAILABLE
                    ELSE REANALYZE_TARGET_USES_AVAILABLE
            again == fill_buffer_with_targets(new, k2, streams[name], name, seed, model_steps)
        IN  (WasRead(name) /\ k <= n /\ NotTextAfter(name, k) = {}) =>
                /\ k2 = n
                /\ Len(old) + Cardinality(parsed) <= MAX_EXPLOITATION_BUFFER_LEN =>
                    /\ Len(new) = Len(old) + Cardinality(parsed)
                    /\ SubSeq(new, 1, Len(old)) = old
                    /\ \A j \in 1..Cardinality(parsed) :
                        new[Len(old) + j] =
                            [target |-> [file |-> name, line |-> Nth(parsed, j)],
                             uses_available |-> seed,
                             model_steps |-> model_steps]
                /\ again.result = "Ok"
                /\ again.buffer = new
                /\ again.targets_already_read = n
      ]_vars

\* A second read of the self-play file has appended the records of the new
\* lines behind those of an earlier read, skipping a malformed line, and the
\* cursor is at the end of the file.
C3_Witness ==
    /\ pc = "check"
    /\ exploitation_targets_read = Len(streams[selfplay].lines)
    /\ \E i \in 1..Len(streams[selfplay].lines) : streams[selfplay].lines[i] = "bad"
    /\ \E i, j \in 1..Len(exploitation_buffer) :
        /\ i < j
        /\ exploitation_buffer[i].model_steps < exploitation_buffer[j].model_steps
        /\ exploitation_buffer[i].target.line < exploitation_buffer[j].target.line

\* C4: create_batch is entered in the mixed phase only with at least
\* BATCH_SIZE/2 records in each buffer and in the exploitation-only phase only
\* with at least BATCH_SIZE records in the exploitation buffer, and no drain
\* ever finds its buffer too short.
C4_NoPartialBatch ==
    /\ pc = "batch" =>
        IF using_reanalyze
        THEN /\ Len(exploitation_buffer) >= BATCH_SIZE \div 2
             /\ Len(reanalyze_buffer) >= BATCH_SIZE \div 2
        ELSE Len(exploitation_buffer) >= BATCH_SIZE
    /\ abort_cause # "drain"
    /\ pc = "save" => Len(batch) = BATCH_SIZE

\* A batch is about to be composed in the mixed phase.
C4_Witness == pc = "batch" /\ using_reanalyze /\ Len(reanalyze_buffer) = BATCH_SIZE \div 2

\* The step number of each name of DiscoveryNames that is a checkpoint: a
\* ".ot" file with a number after "model_"; -1 for the others.
CheckpointStep(name) ==
    CASE name = model_000000 -> 0
      [] name = model_001000 -> 1000
      [] name = model_005000 -> 5000
      [] name = model_5000 -> 5000
      [] OTHER -> -1

\* C5: start-up picks a checkpoint of the directory with the largest step
\* number, passing over the "latest" file and the names without a numeric
\* suffix or without the .ot extension, and picks none when the directory has
\* no checkpoint; the process resumes at the step number of the checkpoint
\* picked (5000 for checkpoints 0, 1000, 5000 and a "latest" file).
C5_CheckpointDiscovery ==
    [][(pc = "start" /\ pc' # "start") =>
        LET valid == {p \in dir : CheckpointStep(p) >= 0}
        IN  /\ valid = {} => found' = NoModel
            /\ valid # {} =>
                /\ found'.path \in valid
                /\ found'.steps = CheckpointStep(found'.path)
                /\ \A q \in valid : CheckpointStep(q) <= found'.steps
                /\ pc' = "pre_training" => starting_steps' = found'.steps
      ]_vars

\* The directory has checkpoints 0, 1000 and 5000 and a "latest" file, and the
\* loop is entered at step 5000 without pre-training.
C5_Witness ==
    /\ {model_000000, model_001000, model_005000, model_latest} \subseteq dir
    /\ pc = "fill"
    /\ found = [steps |-> 5000, path |-> model_005000]
    /\ model_steps = 5000
    /\ ~bootstrapped

\* C6: an iteration that finds too few targets takes no training step and
\* leaves the step counter as it is: the next iteration runs with the same
\* model_steps.
C6_FailedIterationKeepsSteps ==
    [][(pc = "sleep" /\ pc' = "fill") =>
        /\ trained' = trained
        /\ model_steps' = model_steps
      ]_vars

\* C7: in an iteration with model_steps below STEPS_BEFORE_REANALYZE the phase
\* is exploitation-only whatever the reanalyze file holds; the reanalyze file
\* is not read and the reanalyze buffer stays as it was (empty); readiness is
\* decided by the exploitation buffer alone; and the batch holds BATCH_SIZE
\* records of the exploitation stream only.
C7_ExploitationOnlyIsolation ==
    (pc \in {"check", "batch", "save", "sleep"} /\ model_steps < STEPS_BEFORE_REANALYZE) =>
        /\ ~using_reanalyze
        /\ reanalyze_targets_read = 0
        /\ reanalyze_buffer = <<>>
        /\ reanalyze \notin errors
        /\ pc = "batch" => Len(exploitation_buffer) >= MIN_EXPLOITATION_BUFFER_LEN
        /\ pc = "sleep" => Len(exploitation_buffer) < MIN_EXPLOITATION_BUFFER_LEN
        /\ pc = "save" =>
            /\ Len(batch) = BATCH_SIZE
            /\ \A i \in 1..Len(batch) : batch[i].target.file = selfplay

\* A batch was composed below the threshold while the reanalyze file had targets.
C7_Witness ==
    /\ pc = "save"
    /\ model_steps < STEPS_BEFORE_REANALYZE
    /\ \E i \in 1..Len(streams[reanalyze].lines) : streams[reanalyze].lines[i] = "ok"

\* C8: within one run of the process, an iteration in the mixed phase is
\* followed only by iterations in the mixed phase.
C8_PhaseMonotone ==
    [][(using_reanalyze /\ pc' # "start") => using_reanalyze']_vars

\* A second iteration in the mixed phase.
C8_Witness ==
    /\ pc = "check"
    /\ using_reanalyze
    /\ model_steps > STEPS_BEFORE_REANALYZE
    /\ model_steps > starting_steps

\* C9, as claimed: pre-training runs only if discovery found no checkpoint.
C9_BootstrapOnlyWithoutCheckpoint == bootstrapped => found = NoModel

\* C9, amended: pre-training runs exactly when the run starts at step 0, that
\* is when discovery found no checkpoint or when the most advanced checkpoint
\* found is that of step 0; a run that resumes from a checkpoint of step 1 or
\* more enters the loop without pre-training.
C9_BootstrapAtStepZero ==
    /\ bootstrapped => found.steps <= 0
    /\ pc \in LoopPcs => (bootstrapped <=> found.steps <= 0)
    /\ pc \in {"start", "pre_training"} => ~bootstrapped

\* A run that found the checkpoint of step 0 has pre-trained and entered the loop.
C9_Witness ==
    /\ pc = "fill"
    /\ bootstrapped
    /\ found = [steps |-> 0, path |-> format_model(0)]
    /\ model_steps = PRE_TRAINING_STEPS

\* fill_buffers tried to open the file of this stream in the step at hand.
WasOpened(name) ==
    /\ pc = "fill"
    /\ pc' \in {"check", "aborted"}
    /\ NotTextAfter(selfplay, exploitation_targets_read) = {}
    /\ name = reanalyze => using_reanalyze'

\* C10: when fill_buffers cannot open a stream file, the error is logged, the
\* cursor and the buffer of that stream stay as they are, the other stream is
\* still read to its end (the reanalyze stream in the mixed phase), and the
\* loop goes on to the readiness check; the process stops in that step only if
\* the other stream's file has a line that is not text.
C10_OpenFailureRecoverable ==
    [][\A name \in StreamNames :
        LET other == IF name = selfplay THEN reanalyze ELSE selfplay
            new == IF name = selfplay THEN exploitation_buffer' ELSE reanalyze_buffer'
            k2 == IF name = selfplay THEN exploitation_targets_read'
                  ELSE reanalyze_targets_read'
            other_k2 == IF name = selfplay THEN reanalyze_targets_read'
                        ELSE exploitation_targets_read'
        IN  (WasOpened(name) /\ ~streams[name].openable) =>
                /\ name \in errors'
                /\ new = Buffer(name)
                /\ k2 = Cursor(name)
                /\ pc' = "aborted" =>
                    /\ abort_cause' = "line"
                    /\ NotTextAfter(other, Cursor(other)) # {}
                /\ (pc' = "check" /\ WasOpened(other) /\ streams[other].openable) =>
                    /\ other_k2 = Len(streams[other].lines)
                    /\ other \notin errors'
      ]_vars

\* The self-play file is missing in the mixed phase: the error is logged and
\* the reanalyze file has been read all the same.
C10_Witness ==
    /\ pc = "check"
    /\ using_reanalyze
    /\ selfplay \in errors
    /\ ~streams[selfplay].openable
    /\ reanalyze_targets_read = Len(streams[reanalyze].lines)
    /\ reanalyze_buffer # <<>>

\* C11: whatever the stream files hold (lines that do not parse, a final line
\* written in part, a line that is not text), a fill_buffers step goes on to
\* the readiness check with the cursor of every file it could open at the end
\* of that file; no content of a stream file stops the process.
C11_MalformedNeverAborts ==
    [][(pc = "fill" /\ pc' \notin {"fill", "start"}) =>
        /\ pc' = "check"
        /\ abort_cause' = "none"
        /\ streams[selfplay].openable =>
               exploitation_targets_read' = Len(streams[selfplay].lines)
        /\ (using_reanalyze' /\ streams[reanalyze].openable) =>
               reanalyze_targets_read' = Len(streams[reanalyze].lines)
      ]_vars

\* C12: every batch create_batch returns has BATCH_SIZE records: in the
\* exploitation-only phase all of the exploitation stream, in the mixed phase
\* BATCH_SIZE/2 of the exploitation stream followed by BATCH_SIZE/2 of the
\* reanalyze stream; and whatever is put back, each buffer holds records of
\* its own stream only.
C12_BatchComposition ==
    /\ pc = "save" =>
        /\ Len(batch) = BATCH_SIZE
        /\ \A i \in 1..Len(batch) :
            batch[i].target.file =
                IF using_reanalyze /\ i > BATCH_SIZE \div 2 THEN reanalyze ELSE selfplay
    /\ \A i \in 1..Len(exploitation_buffer) : exploitation_buffer[i].target.file = selfplay
    /\ \A i \in 1..Len(reanalyze_buffer) : reanalyze_buffer[i].target.file = reanalyze

\* A mixed batch was composed and its two records, having uses left, are back
\* in the two buffers.
C12_Witness ==
    /\ pc = "save"
    /\ using_reanalyze
    /\ \E i \in 1..Len(exploitation_buffer) :
        exploitation_buffer[i].target = batch[1].target
    /\ \E i \in 1..Len(reanalyze_buffer) :
        reanalyze_buffer[i].target = batch[BATCH_SIZE].target

\* C13: when a save of a model (the initial one, the one after pre-training,
\* the rolling one, a numbered one) or the load at start-up fails, the process
\* stops at that point; after the failure no training step is taken and no
\* iteration is run until the process is started again.
C13_CheckpointFailureFatal ==
    [][/\ checkpoint_io_failed' =>
            /\ pc' = "aborted"
            /\ abort_cause' \in {"load", "save"}
       /\ checkpoint_io_failed =>
            \/ pc' = "start"
            \/ /\ pc' = pc
               /\ trained' = trained
               /\ model_steps' = model_steps
               /\ dir' = dir
      ]_vars

\* A save failed in an iteration of the main loop, after the training step of
\* that iteration, and the process has stopped there.
C13_Witness ==
    /\ checkpoint_io_failed
    /\ pc = "aborted"
    /\ abort_cause = "save"
    /\ trained > (IF bootstrapped THEN PRE_TRAINING_STEPS ELSE 0)

\* The pair (model_steps, uses_available) of a is lexicographically at least that of b.
PairAtLeast(a, b) ==
    IF a.model_steps = b.model_steps
    THEN a.uses_available >= b.uses_available
    ELSE a.model_steps > b.model_steps

\* C14: truncate_buffer_if_needed on a buffer longer than the capacity keeps
\* exactly capacity records, each a record of the buffer as it was, none
\* twice, and the pair (model_steps, uses_available) of every record kept is
\* lexicographically at least that of every record dropped; a buffer no longer
\* than the capacity is left as it is.
C14_TruncationPriority ==
    [][(pc = "truncate" /\ pc' = "check") =>
        LET old == exploitation_buffer
            new == exploitation_buffer'
            kept == {new[i] : i \in 1..Len(new)}
            dropped == {old[i] : i \in 1..Len(old)} \ kept
        IN  IF Len(old) > MAX_EXPLOITATION_BUFFER_LEN
            THEN /\ Len(new) = MAX_EXPLOITATION_BUFFER_LEN
                 /\ Cardinality(kept) = Len(new)
                 /\ kept \subseteq {old[i] : i \in 1..Len(old)}
                 /\ \A r \in kept : \A d \in dropped : PairAtLeast(r, d)
            ELSE new = old
      ]_vars

\* A buffer longer than the capacity was cut to the capacity: a record that
\* stood behind the first capacity records is kept, in front of an older one.
C14_Witness ==
    /\ pc = "check"
    /\ Len(exploitation_buffer) = MAX_EXPLOITATION_BUFFER_LEN
    /\ exploitation_buffer[1].target.line > MAX_EXPLOITATION_BUFFER_LEN
    /\ exploitation_buffer[1].model_steps > exploitation_buffer[2].model_steps

\* The records of a sequence.
Records(buffer) == {buffer[i] : i \in 1..Len(buffer)}

\* What a buffer must hold after the records drawn from it were taken out and
\* put back under the reuse policy.
AfterDraw(buffer, drawn) ==
    (Records(buffer) \ drawn)
    \cup {[d EXCEPT !.uses_available = d.uses_available - 1]
          : d \in {x \in drawn : x.uses_available > 1}}

\* A record of the self-play stream with u uses left.
WithUses(line, u) == TargetWithContext(selfplay, line, u, 0)

\* C15: after a call of create_batch each buffer holds the records that were
\* not drawn, as they were, and those of the drawn records that had more than
\* one use left, each with one use less and otherwise as it was, and nothing
\* else. And the reinsertion takes records with 1, 2 and 3 uses left to
\* records with 1 and 2 uses, those to one record with 1 use, and that to nothing.
C15_EffectOfDraw ==
    [][(pc' = "save" /\ batch' # <<>>) =>
        LET drawn_e == {d \in Records(batch') : d.target.file = selfplay}
            drawn_r == {d \in Records(batch') : d.target.file = reanalyze}
        IN  /\ drawn_e \subseteq Records(exploitation_buffer)
            /\ drawn_r \subseteq Records(reanalyze_buffer)
            /\ Records(exploitation_buffer') = AfterDraw(exploitation_buffer, drawn_e)
            /\ Records(reanalyze_buffer') = AfterDraw(reanalyze_buffer, drawn_r)
            /\ Len(exploitation_buffer') = Cardinality(Records(exploitation_buffer'))
            /\ Len(reanalyze_buffer') = Cardinality(Records(reanalyze_buffer'))
            /\ filter_map_reuse(<<WithUses(1, 1), WithUses(2, 2), WithUses(3, 3)>>)
                   = <<WithUses(2, 1), WithUses(3, 2)>>
            /\ filter_map_reuse(<<WithUses(2, 1), WithUses(3, 2)>>) = <<WithUses(3, 1)>>
            /\ filter_map_reuse(<<WithUses(3, 1)>>) = <<>>
      ]_vars

\* After a draw the exploitation buffer holds a record that was not drawn,
\* with its seed, next to one that was drawn and put back with one use less.
C15_Witness ==
    /\ pc = "save"
    /\ \E i, j \in 1..Len(exploitation_buffer) :
        /\ ledger[exploitation_buffer[i].target].draws = 0
        /\ exploitation_buffer[i].uses_available = ledger[exploitation_buffer[i].target].seed
        /\ exploitation_buffer[j].target \in Targets(batch)
        /\ exploitation_buffer[j].uses_available
               = ledger[exploitation_buffer[j].target].seed - 1

\* fill_buffers has read stream name in the step at hand: the cursor is at the
\* end of the file if the file could be opened, the well-formed lines it
\* passed are in the buffer, and the buffer is cut to the capacity.
IngestedAndCut(name, capacity) ==
    LET new == IF name = selfplay THEN exploitation_buffer' ELSE reanalyze_buffer'
        k2 == IF name = selfplay THEN exploitation_targets_read' ELSE reanalyze_targets_read'
    IN  IF streams[name].openable
        THEN /\ k2 = Len(streams[name].lines)
             /\ Len(new) = Min(capacity,
                               Len(Buffer(name))
                               + Cardinality(WellFormedAfter(name, Cursor(name))))
        ELSE /\ k2 = Cursor(name)
             /\ new = Buffer(name)

\* C16, as claimed: in every iteration that comes to the readiness decision,
\* whatever the phase, fill_buffers has ingested the new records of both
\* streams and cut both buffers to their capacity.
C16_BothStreamsEveryIteration ==
    [][(pc = "fill" /\ pc' = "check") =>
        /\ IngestedAndCut(selfplay, MAX_EXPLOITATION_BUFFER_LEN)
        /\ IngestedAndCut(reanalyze, MAX_REANALYZE_BUFFER_LEN)
      ]_vars

\* C16, amended: in every iteration that comes to the readiness decision the
\* new records of the exploitation stream are ingested and the exploitation
\* buffer is cut to its capacity; the same is done for the reanalyze stream in
\* the iterations of the mixed phase only; in an iteration of the
\* exploitation-only phase the reanalyze file is not read, and the reanalyze
\* cursor and buffer stay as they are.
C16_IngestionByPhase ==
    [][(pc = "fill" /\ pc' = "check") =>
        /\ IngestedAndCut(selfplay, MAX_EXPLOITATION_BUFFER_LEN)
        /\ IF model_steps >= STEPS_BEFORE_REANALYZE
           THEN IngestedAndCut(reanalyze, MAX_REANALYZE_BUFFER_LEN)
           ELSE /\ reanalyze_targets_read' = reanalyze_targets_read
                /\ reanalyze_buffer' = reanalyze_buffer
                /\ reanalyze \notin errors'
      ]_vars

\* An iteration of the exploitation-only phase has ingested the self-play file
\* and has left alone a reanalyze file that can be opened and has targets.
C16_Witness ==
    /\ pc = "check"
    /\ ~using_reanalyze
    /\ exploitation_buffer # <<>>
    /\ exploitation_targets_read = Len(streams[selfplay].lines)
    /\ streams[reanalyze].openable
    /\ WellFormedAfter(reanalyze, 0) # {}
    /\ reanalyze_targets_read = 0
    /\ reanalyze_buffer = <<>>

\* C17: whenever the step counter moves on from a multiple of
\* STEPS_PER_CHECKPOINT, the iteration at that count has taken its training
\* step and the numbered checkpoint of that count is in the directory;
\* whenever it moves on from a multiple of STEPS_PER_SAVE, the iteration has
\* taken its training step and the rolling "latest" file is in the directory;
\* and no numbered checkpoint is written at any other count.
C17_CheckpointCadence ==
    [][(pc \in {"save", "sleep"} /\ pc' = "fill") =>
        /\ model_steps % STEPS_PER_CHECKPOINT = 0 =>
            /\ pc = "save"
            /\ format_model(model_steps) \in dir'
        /\ model_steps % STEPS_PER_SAVE = 0 =>
            /\ pc = "save"
            /\ model_latest \in dir'
        /\ model_steps % STEPS_PER_CHECKPOINT # 0 => dir' \ dir \subseteq {model_latest}
        /\ model_steps % STEPS_PER_SAVE # 0 => dir' = dir
      ]_vars

\* C18: when pre-training has run, it has taken exactly PRE_TRAINING_STEPS
\* training steps, each on a batch of exactly BATCH_SIZE targets of the
\* shuffled pool, and no target of the pool is in two batches or twice in one;
\* the step counter is then PRE_TRAINING_STEPS, and the main loop is entered
\* at that count with the numbered checkpoint of that count in the directory.
C18_BootstrapSchedule ==
    /\ ~bootstrapped => pre_training_batches = <<>>
    /\ bootstrapped =>
        /\ Len(pre_training_batches) = PRE_TRAINING_STEPS
        /\ \A s \in 1..Len(pre_training_batches) :
            /\ Len(pre_training_batches[s]) = BATCH_SIZE
            /\ \A i \in 1..Len(pre_training_batches[s]) :
                pre_training_batches[s][i] \in 1..(INITIAL_RANDOM_TARGETS + MaxOvershoot)
        /\ \A s, t \in 1..Len(pre_training_batches) :
            \A i \in 1..Len(pre_training_batches[s]), j \in 1..Len(pre_training_batches[t]) :
                pre_training_batches[s][i] = pre_training_batches[t][j] => (s = t /\ i = j)
        /\ starting_steps = PRE_TRAINING_STEPS
        /\ trained >= PRE_TRAINING_STEPS
        /\ pc \in LoopPcs =>
            /\ format_model(PRE_TRAINING_STEPS) \in dir
            /\ model_steps >= PRE_TRAINING_STEPS
            /\ (pc = "fill" /\ model_steps = PRE_TRAINING_STEPS) =>
                   trained = PRE_TRAINING_STEPS

\* A run that found no model has pre-trained and stands before its first
\* iteration of the main loop.
C18_Witness ==
    /\ pc = "fill"
    /\ found = NoModel
    /\ bootstrapped
    /\ Len(pre_training_batches) = PRE_TRAINING_STEPS
    /\ model_steps = PRE_TRAINING_STEPS
    /\ format_model(PRE_TRAINING_STEPS) \in dir

\* C19: whatever the buffers hold and whatever orders the shuffles give, the
\* records of a batch are different entries of the buffers as they were before
\* the call, and the entries drawn are taken out of their buffer: afterwards
\* no drawn entry is in a buffer as it was, and each buffer has as many
\* entries as before, less the ones drawn, plus the ones put back.
C19_NoDuplicatesInBatch ==
    [][(pc' = "save" /\ batch' # <<>>) =>
        LET before == Records(exploitation_buffer) \cup Records(reanalyze_buffer)
            after == Records(exploitation_buffer') \cup Records(reanalyze_buffer')
            put_back(name) == {d \in Records(batch') :
                                   d.target.file = name /\ d.uses_available > 1}
            drawn(name) == {d \in Records(batch') : d.target.file = name}
        IN  /\ \A i, j \in 1..Len(batch') : batch'[i].target = batch'[j].target => i = j
            /\ Records(batch') \subseteq before
            /\ Records(batch') \cap after = {}
            /\ Len(exploitation_buffer') =
                   Len(exploitation_buffer) - Cardinality(drawn(selfplay))
                   + Cardinality(put_back(selfplay))
            /\ Len(reanalyze_buffer') =
                   Len(reanalyze_buffer) - Cardinality(drawn(reanalyze))
                   + Cardinality(put_back(reanalyze))
      ]_vars

\* A batch of the exploitation-only phase took the two records of the
\* exploitation buffer, each on its last use, and left the buffer empty.
C19_Witness ==
    /\ pc = "save"
    /\ ~using_reanalyze
    /\ Len(batch) = BATCH_SIZE
    /\ batch[1].target # batch[BATCH_SIZE].target
    /\ \A i \in 1..Len(batch) : batch[i].uses_available = 1
    /\ exploitation_buffer = <<>>

\* C20: a record comes into a buffer only by a read of fill_buffers, with the
\* model_steps of the iteration that reads it; a record that stays in a
\* buffer through a step (a shuffle, a draw, a truncation) keeps its
\* model_steps; no target is buffered twice; so every buffered record carries
\* the step count of the iteration that ingested it, a count of this run that
\* is not ahead of the step counter.
C20_IngestionTagFrozen ==
    [][pc' # "start" =>
        \A name \in StreamNames :
            LET old == Buffer(name)
                new == IF name = selfplay THEN exploitation_buffer' ELSE reanalyze_buffer'
            IN  /\ \A i, j \in 1..Len(new) : new[i].target = new[j].target => i = j
                /\ \A i \in 1..Len(new) :
                    /\ new[i].model_steps \in starting_steps'..model_steps'
                    /\ IF new[i].target \in Targets(old)
                       THEN \E j \in 1..Len(old) :
                                /\ old[j].target = new[i].target
                                /\ old[j].model_steps = new[i].model_steps
                                /\ old[j].uses_available >= new[i].uses_available
                       ELSE /\ pc = "fill"
                            /\ new[i].model_steps = model_steps
                            /\ new[i].target.file = name
                            /\ new[i].target.line > Cursor(name)
      ]_vars

\* A record ingested in the iteration at STEPS_BEFORE_REANALYZE was left in
\* the exploitation buffer by the shuffle and the draw of that iteration and
\* is in the buffer, with its tag, in the next iteration.
C20_Witness ==
    /\ pc = "check"
    /\ model_steps = STEPS_BEFORE_REANALYZE + 1
    /\ batch # <<>>
    /\ \E i \in 1..Len(exploitation_buffer) :
        exploitation_buffer[i].model_steps = STEPS_BEFORE_REANALYZE

\* C21: within a run, whatever the order of the appends of the workers and
\* the reads of fill_buffers, a line the cursor has passed that is a
\* well-formed target in the file has been ingested into the buffer of its
\* stream; this includes a last line that a read saw written in part and that
\* the worker completed afterwards.
C21_NoRecordLost ==
    \A name \in StreamNames :
        \A i \in 1..Len(streams[name].lines) :
            (i <= Cursor(name) /\ streams[name].lines[i] = "ok") =>
                [file |-> name, line |-> i] \in DOMAIN ledger

\* C22 as stated: when a restarted process has loaded its model, the step
\* count it resumes from is not lower than the step count of any snapshot
\* saved before, numbered or rolling "latest".
C22_ResumeAtMostAdvancedSnapshot ==
    [][(pc = "start" /\ pc' = "pre_training") =>
        starting_steps' >= Max(persisted.latest, persisted.numbered)]_vars

\* C22, amended: when a restarted process has loaded its model, the step
\* count it resumes from is not lower than the step count of any numbered
\* checkpoint saved before; the rolling "latest" snapshot is not a resume
\* point, and the steps taken since the last numbered checkpoint are taken
\* again.
C22_ResumeAtMostAdvancedCheckpoint ==
    [][(pc = "start" /\ pc' = "pre_training") =>
        /\ starting_steps' >= persisted.numbered
        /\ persisted.numbered >= 0 =>
            /\ found' # NoModel
            /\ found'.path \in dir
            /\ starting_steps' = found'.steps
      ]_vars

\* A restarted process has resumed from the numbered checkpoint saved after
\* pre-training, while a "latest" snapshot of a later step count is in the
\* directory.
C22_Witness ==
    /\ pc = "fill"
    /\ ~bootstrapped
    /\ persisted.numbered = PRE_TRAINING_STEPS
    /\ persisted.latest > persisted.numbered
    /\ model_latest \in dir
    /\ starting_steps = persisted.numbered
    /\ model_steps = starting_steps

\* C24: with seeds of at least 1, in any sequence of create_batch calls every
\* record held in either buffer and every record drawn into the batch has at
\* least one use left and no more than its seed: no record with zero uses is
\* buffered or drawn, and the count of uses never goes below zero or wraps.
C24_PositiveUses ==
    \A d \in Records(exploitation_buffer) \cup Records(reanalyze_buffer) \cup Records(batch) :
        /\ d.uses_available \in Nat
        /\ d.uses_available >= 1
        /\ d.uses_available <= ledger[d.target].seed

\* A batch has been drawn that holds a record on its last use, which is in
\* no buffer any more, while a record that has been drawn before is still
\* buffered with its one remaining use.
C24_Witness ==
    /\ pc = "save"
    /\ \E d \in Records(batch) :
        /\ d.uses_available = 1
        /\ ledger[d.target].seed > 1
        /\ d.target \notin Targets(exploitation_buffer) \cup Targets(reanalyze_buffer)
    /\ \E d \in Records(exploitation_buffer) \cup Records(reanalyze_buffer) :
        /\ d.uses_available = 1
        /\ ledger[d.target].draws >= 1

(***************************************************************************)
(* The loop under fair scheduling: the process is not stopped, the stream  *)
(* files stay openable, and the producers append well-formed targets only, *)
(* when and if they choose to.                                             *)
(***************************************************************************)
StartUp == LoadOrCreate \/ PreTraining

\* Lines 184-197 and the step of the for loop, at the bound of the counter:
\* the loop goes on waiting and polling as before. The counts from MaxSteps
\* on are not told apart (they are all in the mixed phase), and model_steps
\* stays at MaxSteps for them.
SleepBeyond ==
    /\ pc = "sleep"
    /\ model_steps = MaxSteps
    /\ phase_is_mixed(model_steps)
    /\ pc' = "fill"
    /\ UNCHANGED <<abort_cause, dir, streams, found, starting_steps, model_steps,
                   using_reanalyze, exploitation_buffer, exploitation_targets_read,
                   reanalyze_buffer, reanalyze_targets_read, batch, errors, trained,
                   bootstrapped, pre_training_batches, checkpoint_io_failed, persisted, ledger>>

\* One step of an iteration of the for loop of lines 133-198.
MainLoop ==
    \/ FillBuffers
    \/ Check
    \/ Train
    \/ SaveModels
    \/ Sleep
    \/ SleepBeyond

Producer == \E name \in StreamNames : AppendLine(name, "ok")

NextLive == StartUp \/ MainLoop \/ Producer

\* The loop keeps running: a step of an iteration that can be taken is taken
\* (thread::sleep returns after its 30 seconds).
SpecLive == Init /\ [][NextLive]_vars /\ WF_vars(MainLoop)

\* The targets a stream can give to the next reads: those buffered and the
\* well-formed lines of the file past the cursor.
Available(name) == Len(Buffer(name)) + Cardinality(WellFormedAfter(name, Cursor(name)))

\* C23: when the loop waits in an exploitation-only iteration and the stream
\* file that phase requires has, with the buffer, the targets an iteration
\* needs, then under fair scheduling of the loop a training step is
\* eventually taken.
C23_WaitingRecoverable ==
    (/\ pc = "sleep"
     /\ ~phase_is_mixed(model_steps)
     /\ streams[selfplay].openable
     /\ Available(selfplay) >= MIN_EXPLOITATION_BUFFER_LEN
     /\ Available(selfplay) >= BATCH_SIZE) ~> (pc = "batch")

====
